---- MODULE Spec2Model ----
(***************************************************************************)
(* ItemManager (assessment/item_manager.py): the world state of the item    *)
(* arena, the pick_up_item / offload_item services and the periodic         *)
(* control_loop, run by a MultiThreadedExecutor.                            *)
(*                                                                          *)
(* Units.  Stored coordinates (Robot.x, Item.x, Cluster.x, Zone.x ...) are  *)
(* held in hundredths of a unit, which is the resolution round(., 2) leaves *)
(* them with.  Poses of the simulation backend are held in thousandths, so  *)
(* that round(., 2) is a real conversion.  Distances are compared squared.  *)
(*                                                                          *)
(* Randomness.  The node seeds Python's generator once from --random_seed,  *)
(* so every draw is a function of the seed and of the draws made before it. *)
(* The generator is a state variable (rng) stepped by a small Lehmer        *)
(* generator standing for the Mersenne Twister; random.uniform is           *)
(* quantised (radius to thousandths, angle to even degrees).                *)
(***************************************************************************)
EXTENDS Integers, Sequences, FiniteSets, TLC

VARIABLES
    rng,              \* state of the `random` module's generator
    first_run,        \* self.first_run
    clusters,         \* self.clusters: insertion-ordered dict, <<[id, x, y, colour]>>
    items,            \* self.items:    insertion-ordered dict, <<[id, x, y, colour, cluster_id]>>
    robots,           \* self.robots:   insertion-ordered dict, <<[id, x, y, item_held, previous_item_held]>>
    zones,            \* self.zones:    insertion-ordered dict, <<[id, x, y, items_returned]>>
    cluster_counter,  \* self.cluster_counter
    item_counter,     \* self.item_counter
    pc,               \* per callback: where its invocation stands ("idle": none is executing)
    loc,              \* locals of the control_loop invocation (loop positions)
    request,          \* per service: robot_id of the request being served (None: none)
    zone,             \* offload_item's local `zone`: an index in self.zones, 0 for None
    issued,           \* the backend requests the last step sent
    response,         \* the service response the last step returned (NoResponse: none)
    published         \* the messages the last step published (<<>>: none)

vars == <<rng, first_run, clusters, items, robots, zones, cluster_counter,
          item_counter, pc, loc, request, zone, issued, response, published>>

\* WorldState
world == <<first_run, clusters, items, robots, zones, cluster_counter, item_counter>>

-----------------------------------------------------------------------------
(* Bounds of the model *)

\* number of --random_seed values explored by Spec
NumSeeds == 2
\* number of --random_seed values explored by SpecSeed (seeding only)
NumSeedRuns == 300
\* iterations explored of one rejection-sampling loop before it counts as not returning
MaxAttempts == 500
\* control_loop invocations explored in one run
MaxTicks == 2
\* accepted deposits explored in one run
MaxDeposits == 2

-----------------------------------------------------------------------------
(* Program constants *)

NUM_CLUSTERS == 6
MIN_ITEMS == 3
MAX_ITEMS == 5

Colour == {"RED", "GREEN", "BLUE"}
ColourList == <<"RED", "GREEN", "BLUE">>

\* Names are pairs: <<"item", 3>> is 'item3', <<"robot", 1>> is 'robot1'.
None == <<"none", 0>>
ItemId(n) == <<"item", n>>
ClusterId(n) == <<"cluster", n>>
RobotName(n) == <<"robot", n>>
READY == <<"ready", 0>>

ZoneLocation == <<"TOP_LEFT", "TOP_RIGHT", "BOTTOM_RIGHT", "BOTTOM_LEFT">>

item_values == [c \in Colour |-> CASE c = "RED" -> 5 [] c = "GREEN" -> 10 [] c = "BLUE" -> 15]

-----------------------------------------------------------------------------
(* Insertion-ordered dicts: sequences of records with an id field *)

Has(d, id) == \E i \in DOMAIN d : d[i].id = id
Idx(d, id) == CHOOSE i \in DOMAIN d : d[i].id = id
Get(d, id) == d[Idx(d, id)]
Put(d, rec) == IF Has(d, rec.id) THEN [d EXCEPT ![Idx(d, rec.id)] = rec] ELSE Append(d, rec)

-----------------------------------------------------------------------------
(* Arithmetic *)

Abs(n) == IF n < 0 THEN -n ELSE n

\* n / d rounded to the nearest integer, ties to even (Python's round)
RoundDiv(n, d) ==
    LET q == n \div d
        r == n % d
    IN  IF 2 * r < d THEN q
        ELSE IF 2 * r > d THEN q + 1
        ELSE IF q % 2 = 0 THEN q ELSE q + 1

\* round(v, 2) of a backend coordinate (thousandths), as a stored coordinate (hundredths)
Round2(v) == RoundDiv(v, 10)

\* math.dist(a, b) squared, for stored coordinates
Dist2(ax, ay, bx, by) == (ax - bx) * (ax - bx) + (ay - by) * (ay - by)

\* 1000 * sin of 0, 2, .., 90 degrees
SinTable == << 0, 35, 70, 105, 139, 174, 208, 242, 276, 309, 342, 375, 407, 438, 469,
               500, 530, 559, 588, 616, 643, 669, 695, 719, 743, 766, 788, 809, 829, 848,
               866, 883, 899, 914, 927, 940, 951, 961, 970, 978, 985, 990, 995, 998, 999,
               1000 >>

\* 1000 * math.sin / math.cos of an even number of degrees in 0..358
Sin1000(deg) ==
    IF deg <= 90 THEN SinTable[deg \div 2 + 1]
    ELSE IF deg <= 180 THEN SinTable[(180 - deg) \div 2 + 1]
    ELSE IF deg <= 270 THEN - SinTable[(deg - 180) \div 2 + 1]
    ELSE - SinTable[(360 - deg) \div 2 + 1]

Cos1000(deg) == Sin1000((deg + 90) % 360)

-----------------------------------------------------------------------------
(* The `random` module *)

\* random.seed(n)
Seed(n) == 1 + (n % 32748)
\* the generator's step
Lehmer(s) == (s * 9301) % 32749
\* 9301^k modulo 32749
RECURSIVE LehmerPower(_)
LehmerPower(k) ==
    IF k = 0 THEN 1
    ELSE LET h == LehmerPower(k \div 2)
         IN  (((h * h) % 32749) * (IF k % 2 = 1 THEN 9301 ELSE 1)) % 32749
\* the generator's state k steps after s
Skip(s, k) == (s * LehmerPower(k)) % 32749
\* the value in 0..n-1 the generator's state s stands for
RandBelow(s, n) == ((s - 1) * n) \div 32748
\* random.randint(lo, hi) read off state s
RandInt(s, lo, hi) == lo + RandBelow(s, hi - lo + 1)

-----------------------------------------------------------------------------
(* PlacementGenerator *)

\* the band random.randint samples x from, per colour
BandLo(colour) == CASE colour = "RED" -> -2 [] colour = "GREEN" -> -1 [] colour = "BLUE" -> 1
BandHi(colour) == CASE colour = "RED" -> -1 [] colour = "GREEN" -> 1 [] colour = "BLUE" -> 2

\* grid cell (x, y) clashes with an obstacle
Obstacle(x, y) ==
    \/ (x = 1 /\ y = 1) \/ (x = 1 /\ y = -1) \/ (x = -1 /\ y = 1) \/ (x = -1 /\ y = -1)

\* ClusterClash with "< 1.0" for "<= 1.0"
ClusterClashLt(cluster, x, y) ==
    \/ (cluster.x = x /\ cluster.y = y)
    \/ Dist2(cluster.x, cluster.y, x, y) < 100 * 100

\* candidate (x, y), in hundredths, clashes with an existing cluster
ClusterClash(cluster, x, y) ==
    \/ (cluster.x = x /\ cluster.y = y)
    \/ Dist2(cluster.x, cluster.y, x, y) <= 100 * 100

\* the candidate of the n-th iteration of generate_cluster_location's loop, and
\* the generator state after it
ClusterCandidate(s, colour, n) ==
    LET s1 == Skip(s, 2 * n - 1)
        s2 == Lehmer(s1)
    IN  [x   |-> 100 * RandInt(s2, BandLo(colour), BandHi(colour)),
         y   |-> 100 * RandInt(s1, -2, 2),
         rng |-> s2]

ClusterCandidateValid(c, cls) ==
    /\ ~Obstacle(c.x \div 100, c.y \div 100)
    /\ \A i \in DOMAIN cls : ~ClusterClash(cls[i], c.x, c.y)

\* generate_cluster_location(colour), from generator state s, with `fuel`
\* iterations of its loop explored: the first valid candidate and the generator
\* state it returns with, or ok = FALSE when the loop has not returned
generate_cluster_location(s, colour, cls, fuel) ==
    IF \E n \in 1..fuel : ClusterCandidateValid(ClusterCandidate(s, colour, n), cls)
    THEN LET n == CHOOSE n \in 1..fuel :
                     /\ ClusterCandidateValid(ClusterCandidate(s, colour, n), cls)
                     /\ \A m \in 1..(n - 1) :
                           ~ClusterCandidateValid(ClusterCandidate(s, colour, m), cls)
             c == ClusterCandidate(s, colour, n)
         IN  [ok |-> TRUE, x |-> c.x, y |-> c.y, rng |-> c.rng]
    ELSE [ok |-> FALSE, x |-> 0, y |-> 0, rng |-> Skip(s, 2 * fuel)]

\* ItemClash with 0.2 for 0.3
ItemClashCloser(item, cluster_id, x, y) ==
    item.cluster_id = cluster_id /\ Dist2(item.x, item.y, x, y) < 20 * 20

\* candidate (x, y) is too close to an item of the same cluster
ItemClash(item, cluster_id, x, y) ==
    item.cluster_id = cluster_id /\ Dist2(item.x, item.y, x, y) < 30 * 30

\* the candidate of the n-th iteration of generate_item_position's loop
ItemCandidate(s, cluster, n) ==
    LET s1     == Skip(s, 2 * n - 1)
        radius == RandBelow(s1, 500)          \* random.uniform(0, 0.5), thousandths
        s2     == Lehmer(s1)
        angle  == 2 * RandBelow(s2, 180)      \* random.uniform(0, 360), degrees
    IN  [x   |-> cluster.x + RoundDiv(radius * Cos1000(angle), 10000),
         y   |-> cluster.y + RoundDiv(radius * Sin1000(angle), 10000),
         rng |-> s2]

ItemCandidateValid(c, cluster_id, its) ==
    \A i \in DOMAIN its : ~ItemClash(its[i], cluster_id, c.x, c.y)

\* generate_item_position(cluster_id), as generate_cluster_location above
generate_item_position(s, cluster_id, cls, its, fuel) ==
    LET cluster == Get(cls, cluster_id)
    IN  IF \E n \in 1..fuel : ItemCandidateValid(ItemCandidate(s, cluster, n), cluster_id, its)
        THEN LET n == CHOOSE n \in 1..fuel :
                         /\ ItemCandidateValid(ItemCandidate(s, cluster, n), cluster_id, its)
                         /\ \A m \in 1..(n - 1) :
                               ~ItemCandidateValid(ItemCandidate(s, cluster, m), cluster_id, its)
                 c == ItemCandidate(s, cluster, n)
             IN  [ok |-> TRUE, x |-> c.x, y |-> c.y, rng |-> c.rng]
        ELSE [ok |-> FALSE, x |-> 0, y |-> 0, rng |-> Skip(s, 2 * fuel)]

\* the colour of the n-th iteration of the colour loop
ColourCandidate(s, n) ==
    LET s1 == Skip(s, n) IN [colour |-> ColourList[1 + RandBelow(s1, 3)], rng |-> s1]

\* ColourCandidateValid with "count < 3" for "count < 2"
ColourCandidateValidUpTo3(c, cls) ==
    Cardinality({i \in DOMAIN cls : cls[i].colour = c.colour}) < 3

\* count < 2, over the clusters of the candidate's colour
ColourCandidateValid(c, cls) ==
    Cardinality({i \in DOMAIN cls : cls[i].colour = c.colour}) < 2

\* the colour of a new cluster: random.choice, drawn again while 2 clusters have it
ChooseColour(s, cls, fuel) ==
    IF \E n \in 1..fuel : ColourCandidateValid(ColourCandidate(s, n), cls)
    THEN LET n == CHOOSE n \in 1..fuel :
                     /\ ColourCandidateValid(ColourCandidate(s, n), cls)
                     /\ \A m \in 1..(n - 1) : ~ColourCandidateValid(ColourCandidate(s, m), cls)
             c == ColourCandidate(s, n)
         IN  [ok |-> TRUE, colour |-> c.colour, rng |-> c.rng]
    ELSE [ok |-> FALSE, colour |-> "RED", rng |-> Skip(s, fuel)]

-----------------------------------------------------------------------------
(* ZoneRule *)

\* half-length of a zone's square, hundredths
ZONE_SIZE == 50

InZone(robot, z) ==
    /\ robot.x <= z.x + ZONE_SIZE /\ robot.x >= z.x - ZONE_SIZE
    /\ robot.y <= z.y + ZONE_SIZE /\ robot.y >= z.y - ZONE_SIZE

\* get_robot_zone(robot): the index in self.zones of the first zone the robot
\* is in, 0 for None
get_robot_zone(robot) ==
    IF \E i \in DOMAIN zones : InZone(robot, zones[i])
    THEN CHOOSE i \in DOMAIN zones :
            /\ InZone(robot, zones[i])
            /\ \A k \in 1..(i - 1) : ~InZone(robot, zones[k])
    ELSE 0

\* MatchColour never finding a colour
MatchColourIgnored(z) == "None"

\* the first colour, in the order of zone.items_returned, with a count >= 1
MatchColour(z) ==
    IF \E k \in DOMAIN ColourList : z.items_returned[ColourList[k]] >= 1
    THEN ColourList[CHOOSE k \in DOMAIN ColourList :
            /\ z.items_returned[ColourList[k]] >= 1
            /\ \A m \in 1..(k - 1) : z.items_returned[ColourList[m]] < 1]
    ELSE "None"

\* allowed_drop_in_zone without the colour match
allowed_drop_any(robot, zi) == zi # 0

\* allowed_drop_in_zone(robot, zone), zone given by its index (0: None)
allowed_drop_in_zone(robot, zi) ==
    IF zi = 0 THEN FALSE
    ELSE LET match_colour == MatchColour(zones[zi])
         IN  match_colour = "None" \/ match_colour = Get(items, robot.item_held).colour

-----------------------------------------------------------------------------
(* Construction: ItemManager.__init__ *)

\* --random_seed values: those Spec runs with, and those SpecSeed runs with
SeedList == <<1009, 628, 15, 2>>
RandomSeeds == {SeedList[n] : n \in 1..NumSeeds}
SeedRuns == 1..NumSeedRuns

\* the zone_* parameters
ZoneParams == [TOP_LEFT |-> TRUE, TOP_RIGHT |-> TRUE, BOTTOM_RIGHT |-> TRUE, BOTTOM_LEFT |-> TRUE]

NoReturns == [c \in Colour |-> 0]

Zone(location, x, y) == [id |-> location, x |-> x, y |-> y, items_returned |-> NoReturns]

\* self.zones after __init__
InitZones(p) ==
    (IF p.TOP_LEFT THEN <<Zone("TOP_LEFT", 257, 250)>> ELSE <<>>)
    \o (IF p.TOP_RIGHT THEN <<Zone("TOP_RIGHT", 257, -246)>> ELSE <<>>)
    \o (IF p.BOTTOM_RIGHT THEN <<Zone("BOTTOM_RIGHT", -342, -246)>> ELSE <<>>)
    \o (IF p.BOTTOM_LEFT THEN <<Zone("BOTTOM_LEFT", -342, 250)>> ELSE <<>>)

Callbacks == {"control_loop", "pick_up_item", "offload_item"}
Services == {"pick_up_item", "offload_item"}

\* CallbackGroup with the services in a group of their own
CallbackGroupServicesApart(cb) ==
    IF cb = "control_loop" THEN "timer_callback_group" ELSE "service_callback_group"

\* the callback group each callback is created in
CallbackGroup(cb) ==
    CASE cb = "control_loop"  -> "timer_callback_group"
      [] cb = "pick_up_item"  -> "timer_callback_group"
      [] cb = "offload_item"  -> "timer_callback_group"

\* MutuallyExclusiveCallbackGroup: a callback is started only while no callback
\* of its group is executing; one that awaits is executing until it returns
CanExecute(cb) ==
    \A other \in Callbacks : CallbackGroup(other) = CallbackGroup(cb) => pc[other] = "idle"

Robot(name, x, y) ==
    [id |-> name, x |-> x, y |-> y, item_held |-> None, previous_item_held |-> None]

\* Item storing Colour.RED whatever colour it is given
ItemAlwaysRed(id, x, y, colour, cluster_id) ==
    [id |-> id, x |-> x, y |-> y, colour |-> "RED", cluster_id |-> cluster_id]

Item(id, x, y, colour, cluster_id) ==
    [id |-> id, x |-> x, y |-> y, colour |-> colour, cluster_id |-> cluster_id]

Cluster(id, x, y, colour) == [id |-> id, x |-> x, y |-> y, colour |-> colour]

NoLocals == [i |-> 0, j |-> 0, cluster_id |-> None, colour |-> "None", k |-> 0]
NoResponse == [service |-> "None", success |-> FALSE, message |-> <<"", None, None, "None">>]

\* the robot entities the simulation may hold
RobotNames == {RobotName(1), RobotName(2)}

InitWith(seeds) ==
    /\ rng \in {Seed(n) : n \in seeds}
    /\ first_run = TRUE
    /\ clusters = <<>>
    /\ robots = <<>>
    /\ items = <<>>
    /\ zones = InitZones(ZoneParams)
    /\ cluster_counter = 0
    /\ item_counter = 0
    /\ pc = [cb \in Callbacks |-> "idle"]
    /\ loc = NoLocals
    /\ request = [s \in Services |-> None]
    /\ zone = 0
    /\ issued = <<>>
    /\ response = NoResponse
    /\ published = <<>>

Init == InitWith(RandomSeeds)

-----------------------------------------------------------------------------
(* BackendClient: the requests the node issues *)

\* spawn_item(name, x, y, colour, z)
SpawnEntity(name, x, y, colour, z) ==
    [srv |-> "spawn_entity", name |-> name, frame |-> <<"world", 0>>, x |-> x, y |-> y, z |-> z,
     colour |-> colour]
GetModelList == 
    [srv |-> "get_model_list", name |-> None, frame |-> None, x |-> 0, y |-> 0, z |-> 0,
     colour |-> "None"]
GetEntityState(name) ==
    [srv |-> "get_entity_state", name |-> name, frame |-> None, x |-> 0, y |-> 0, z |-> 0,
     colour |-> "None"]
SetEntityState(name, frame, x, y, z) ==
    [srv |-> "set_entity_state", name |-> name, frame |-> frame, x |-> x, y |-> y, z |-> z,
     colour |-> "None"]


-----------------------------------------------------------------------------
(* SyncLoop: control_loop *)

\* control_loop invocations so far: each spawns 'ready', which counts as an item
Ticks == item_counter - Len(items)

\* One stretch of the first-run seeding, from where the invocation stands (l:
\* clusters begun, items of the current cluster still to place) to its next
\* await of spawn_item: the next item of the current cluster, or the next
\* cluster and its first item.  hang: a placement loop that has not returned.
SeedItem(s, cls, its, cc, ic, l) ==
    LET g == generate_item_position(s, l.cluster_id, cls, its, MaxAttempts)
    IN  IF ~g.ok
        THEN [hang |-> TRUE, rng |-> g.rng, clusters |-> cls, items |-> its,
              cluster_counter |-> cc, item_counter |-> ic, loc |-> l, call |-> <<>>]
        ELSE [hang |-> FALSE, rng |-> g.rng, clusters |-> cls,
              items |-> Put(its, Item(ItemId(ic), g.x, g.y, l.colour, l.cluster_id)),
              cluster_counter |-> cc, item_counter |-> ic + 1,
              loc |-> [l EXCEPT !.j = @ - 1],
              call |-> <<SpawnEntity(ItemId(ic), g.x, g.y, l.colour, 0)>>]

SeedCluster(s, cls, its, cc, ic, l) ==
    LET c     == ChooseColour(s, cls, MaxAttempts)
        cid   == ClusterId(cc)
        where == generate_cluster_location(c.rng, c.colour, cls, MaxAttempts)
        s3    == Lehmer(where.rng)
        n     == RandInt(s3, MIN_ITEMS, MAX_ITEMS)
    IN  IF ~c.ok
        THEN [hang |-> TRUE, rng |-> c.rng, clusters |-> cls, items |-> its,
              cluster_counter |-> cc, item_counter |-> ic, loc |-> l, call |-> <<>>]
        ELSE IF ~where.ok
        THEN [hang |-> TRUE, rng |-> where.rng, clusters |-> cls, items |-> its,
              cluster_counter |-> cc + 1, item_counter |-> ic,
              loc |-> [l EXCEPT !.i = @ + 1, !.cluster_id = cid, !.colour = c.colour],
              call |-> <<>>]
        ELSE SeedItem(s3, Put(cls, Cluster(cid, where.x, where.y, c.colour)), its, cc + 1, ic,
                      [l EXCEPT !.i = @ + 1, !.j = n, !.cluster_id = cid, !.colour = c.colour])

\* await self.spawn_item("ready", 0.0, 0.0, Colour.RED, z=-0.5)
SpawnReady ==
    /\ item_counter' = item_counter + 1
    /\ issued' = <<SpawnEntity(READY, 0, 0, "RED", -50)>>
    /\ pc' = [pc EXCEPT !["control_loop"] = "await_ready"]
    /\ loc' = NoLocals
    /\ UNCHANGED <<rng, clusters, items, cluster_counter>>

\* Seeding leaving the block one cluster early
SeedingReadyEarly(l) ==
    IF l.j = 0 /\ l.i = NUM_CLUSTERS - 1
    THEN SpawnReady
    ELSE LET n == IF l.j > 0
                  THEN SeedItem(rng, clusters, items, cluster_counter, item_counter, l)
                  ELSE SeedCluster(rng, clusters, items, cluster_counter, item_counter, l)
         IN  /\ rng' = n.rng
             /\ clusters' = n.clusters
             /\ items' = n.items
             /\ cluster_counter' = n.cluster_counter
             /\ item_counter' = n.item_counter
             /\ loc' = n.loc
             /\ issued' = n.call
             /\ pc' = [pc EXCEPT !["control_loop"] = IF n.hang THEN "looping" ELSE "await_spawn"]

\* the seeding block runs on to its next await, or is left
Seeding(l) ==
    IF l.j = 0 /\ l.i = NUM_CLUSTERS
    THEN SpawnReady
    ELSE LET n == IF l.j > 0
                  THEN SeedItem(rng, clusters, items, cluster_counter, item_counter, l)
                  ELSE SeedCluster(rng, clusters, items, cluster_counter, item_counter, l)
         IN  /\ rng' = n.rng
             /\ clusters' = n.clusters
             /\ items' = n.items
             /\ cluster_counter' = n.cluster_counter
             /\ item_counter' = n.item_counter
             /\ loc' = n.loc
             /\ issued' = n.call
             /\ pc' = [pc EXCEPT !["control_loop"] = IF n.hang THEN "looping" ELSE "await_spawn"]

\* the timer fires and the executor starts control_loop: it runs to its first await
TickStart ==
    /\ CanExecute("control_loop")
    /\ Ticks < MaxTicks
    /\ first_run' = FALSE
    /\ IF first_run THEN Seeding(NoLocals) ELSE SpawnReady
    /\ response' = NoResponse
    /\ published' = <<>>
    /\ UNCHANGED <<robots, zones, request, zone>>

\* the reply to an item's spawn request arrives: seeding goes on
TickSpawned ==
    /\ pc["control_loop"] = "await_spawn"
    /\ Seeding(loc)
    /\ response' = NoResponse
    /\ published' = <<>>
    /\ UNCHANGED <<first_run, robots, zones, request, zone>>

\* the reply to the 'ready' spawn request arrives: get_model_list is requested
TickReady ==
    /\ pc["control_loop"] = "await_ready"
    /\ issued' = <<GetModelList>>
    /\ pc' = [pc EXCEPT !["control_loop"] = "await_model_list"]
    /\ response' = NoResponse
    /\ published' = <<>>
    /\ UNCHANGED <<world, rng, loc, request, zone>>

\* the model lists the simulation answers with: robot1, or robot1 and robot2,
\* next to entities that are no robots
ModelLists == {<<READY, RobotName(1)>>, <<READY, RobotName(1), RobotName(2)>>}

\* TrackRobots storing a new Robot for every robot of the list, known or not
RECURSIVE TrackRobotsAfresh(_, _, _)
TrackRobotsAfresh(rbs, model_names, n) ==
    IF n > Len(model_names) THEN rbs
    ELSE IF model_names[n][1] = "robot"
         THEN TrackRobotsAfresh(Put(rbs, Robot(model_names[n], 0, 0)), model_names, n + 1)
         ELSE TrackRobotsAfresh(rbs, model_names, n + 1)

\* self.robots after the loop over model_names
RECURSIVE TrackRobots(_, _, _)
TrackRobots(rbs, model_names, n) ==
    IF n > Len(model_names) THEN rbs
    ELSE IF model_names[n][1] = "robot" /\ ~Has(rbs, model_names[n])
         THEN TrackRobots(Append(rbs, Robot(model_names[n], 0, 0)), model_names, n + 1)
         ELSE TrackRobots(rbs, model_names, n + 1)

RECURSIVE SumReturned(_, _, _)
SumReturned(zs, colour, n) ==
    IF n = 0 THEN 0 ELSE zs[n].items_returned[colour] + SumReturned(zs, colour, n - 1)

\* ItemLog with "=" for "+=" in the loop over the zones
ItemLogLastZone(zs) ==
    LET red   == zs[Len(zs)].items_returned["RED"]
        green == zs[Len(zs)].items_returned["GREEN"]
        blue  == zs[Len(zs)].items_returned["BLUE"]
    IN  [red_count |-> red, green_count |-> green, blue_count |-> blue,
         total_count |-> red + green + blue,
         red_value |-> red * item_values["RED"],
         green_value |-> green * item_values["GREEN"],
         blue_value |-> blue * item_values["BLUE"],
         total_value |-> red * item_values["RED"] + green * item_values["GREEN"]
                         + blue * item_values["BLUE"]]

\* the ItemLog message built from the zones
ItemLog(zs) ==
    LET red   == SumReturned(zs, "RED", Len(zs))
        green == SumReturned(zs, "GREEN", Len(zs))
        blue  == SumReturned(zs, "BLUE", Len(zs))
    IN  [red_count |-> red, green_count |-> green, blue_count |-> blue,
         total_count |-> red + green + blue,
         red_value |-> red * item_values["RED"],
         green_value |-> green * item_values["GREEN"],
         blue_value |-> blue * item_values["BLUE"],
         total_value |-> red * item_values["RED"] + green * item_values["GREEN"]
                         + blue * item_values["BLUE"]]

\* ItemHolder leaving item_value at 0
ItemHolderNoValue(robot, its) ==
    IF robot.item_held = None
    THEN [robot_id |-> robot.id, holding_item |-> FALSE, item_colour |-> "", item_value |-> 0]
    ELSE [robot_id |-> robot.id, holding_item |-> TRUE,
          item_colour |-> Get(its, robot.item_held).colour, item_value |-> 0]

\* the ItemHolder record of one robot
ItemHolder(robot, its) ==
    IF robot.item_held = None
    THEN [robot_id |-> robot.id, holding_item |-> FALSE, item_colour |-> "", item_value |-> 0]
    ELSE [robot_id |-> robot.id, holding_item |-> TRUE,
          item_colour |-> Get(its, robot.item_held).colour,
          item_value |-> item_values[Get(its, robot.item_held).colour]]

\* both messages are published and control_loop returns
Publish(rbs, its) ==
    /\ published' = <<[item_holders |-> [n \in DOMAIN rbs |-> ItemHolder(rbs[n], its)],
                       item_log |-> ItemLog(zones)]>>
    /\ pc' = [pc EXCEPT !["control_loop"] = "idle"]
    /\ loc' = NoLocals
    /\ issued' = <<>>

\* the loop over self.robots moves on from robot k: the next robot's pose is
\* requested, or the loop is over
AfterRobot(k, rbs, its) ==
    IF k < Len(rbs)
    THEN /\ issued' = <<GetEntityState(rbs[k + 1].id)>>
         /\ pc' = [pc EXCEPT !["control_loop"] = "await_get_state"]
         /\ loc' = [loc EXCEPT !.k = k + 1]
         /\ published' = <<>>
    ELSE Publish(rbs, its)

\* the model list arrives: new robots are tracked
TickModelList(model_names) ==
    /\ pc["control_loop"] = "await_model_list"
    /\ robots' = TrackRobots(robots, model_names, 1)
    /\ AfterRobot(0, robots', items)
    /\ response' = NoResponse
    /\ UNCHANGED <<rng, first_run, clusters, items, zones, cluster_counter, item_counter,
                   request, zone>>

\* AttachHeld storing a new Item that belongs to no cluster
AttachHeldLosingCluster(its, item_id, x, y) ==
    [its EXCEPT ![Idx(its, item_id)] = Item(item_id, x, y, @.colour, None)]

\* the held item's stored position becomes the robot's
AttachHeld(its, item_id, x, y) ==
    [its EXCEPT ![Idx(its, item_id)].x = x, ![Idx(its, item_id)].y = y]

\* the first item of each of the first two clusters
TargetItems ==
    {i \in DOMAIN items :
        \/ i = 1
        \/ /\ Len(clusters) >= 2 /\ items[i].cluster_id = clusters[2].id
           /\ \A k \in 1..(i - 1) : items[k].cluster_id # items[i].cluster_id}

\* the poses (thousandths) the simulation answers with: where a target item was
\* placed, 0.35 beside the first item, and the centre of the first zone
Poses ==
    {[x |-> 10 * items[i].x + 4, y |-> 10 * items[i].y - 3] : i \in TargetItems}
    \cup {[x |-> 10 * items[i].x + 350, y |-> 10 * items[i].y] : i \in TargetItems \cap {1}}
    \cup {[x |-> 2570, y |-> 2500]}

\* the pose of robot k arrives: it is stored, and an item the robot holds is
\* moved with it, in the state and (set_entity_state) in the simulation
TickGotState(position) ==
    /\ pc["control_loop"] = "await_get_state"
    /\ LET k    == loc.k
           name == robots[k].id
           x    == Round2(position.x)
           y    == Round2(position.y)
           held == robots[k].item_held
       IN  /\ robots' = [robots EXCEPT ![k].x = x, ![k].y = y]
           /\ IF held # None
              THEN /\ items' = AttachHeld(items, held, x, y)
                   /\ issued' = <<SetEntityState(held, name, 0, 0, 15)>>
                   /\ pc' = [pc EXCEPT !["control_loop"] = "await_set_state"]
                   /\ published' = <<>>
                   /\ loc' = loc
              ELSE /\ items' = items
                   /\ AfterRobot(k, robots', items)
    /\ response' = NoResponse
    /\ UNCHANGED <<rng, first_run, clusters, zones, cluster_counter, item_counter,
                   request, zone>>

\* the reply to the held item's set_entity_state arrives
TickSetState ==
    /\ pc["control_loop"] = "await_set_state"
    /\ AfterRobot(loc.k, robots, items)
    /\ response' = NoResponse
    /\ UNCHANGED <<world, rng, request, zone>>

-----------------------------------------------------------------------------
(* RequestHandler: pick_up_item *)

DISTANCE == 35

\* InReach with "<=" for "<"
InReachInclusive(robot, item) ==
    Dist2(robot.x, robot.y, item.x, item.y) <= DISTANCE * DISTANCE

\* math.dist((robot.x, robot.y), (item.x, item.y)) < DISTANCE
InReach(robot, item) ==
    Dist2(robot.x, robot.y, item.x, item.y) < DISTANCE * DISTANCE

Failure(service, text, robot_id) ==
    [service |-> service, success |-> FALSE, message |-> <<text, robot_id, None, "None">>]

\* the executor starts pick_up_item on a request for robot_id
PickUpStart(robot_id) ==
    /\ CanExecute("pick_up_item")
    /\ pc' = [pc EXCEPT !["pick_up_item"] = "run"]
    /\ request' = [request EXCEPT !["pick_up_item"] = robot_id]
    /\ issued' = <<>>
    /\ response' = NoResponse
    /\ published' = <<>>
    /\ UNCHANGED <<world, rng, loc, zone>>

\* the items in reach of a robot, as indices in self.items
Near(robot) == {i \in DOMAIN items : InReach(robot, items[i])}

\* PickUpBody without the test of robot.item_held
PickUpBodyNoHeldCheck(robot_id) ==
    IF ~Has(robots, robot_id)
    THEN [robots |-> robots,
          response |-> Failure("pick_up_item", "Unable to find robot_id", robot_id)]
    ELSE LET robot == Get(robots, robot_id)
         IN  IF Near(robot) # {}
             THEN LET first == CHOOSE i \in Near(robot) : \A k \in Near(robot) : i <= k
                  IN  [robots |-> [robots EXCEPT ![Idx(robots, robot_id)].item_held =
                                                     items[first].id],
                       response |-> [service |-> "pick_up_item", success |-> TRUE,
                                     message |-> <<"collected item successfully", robot_id,
                                                   None, "None">>]]
             ELSE [robots |-> robots,
                   response |-> Failure("pick_up_item", "unable to pick any item.", robot_id)]

\* the body of pick_up_item: self.robots and the response it returns with
PickUpBody(robot_id) ==
    IF ~Has(robots, robot_id)
    THEN [robots |-> robots,
          response |-> Failure("pick_up_item", "Unable to find robot_id", robot_id)]
    ELSE LET robot == Get(robots, robot_id)
         IN  IF robot.item_held # None
             THEN [robots |-> robots,
                   response |-> Failure("pick_up_item", "is already holding an item", robot_id)]
             ELSE IF Near(robot) # {}
             THEN LET first == CHOOSE i \in Near(robot) : \A k \in Near(robot) : i <= k
                  IN  [robots |-> [robots EXCEPT ![Idx(robots, robot_id)].item_held =
                                                     items[first].id],
                       response |-> [service |-> "pick_up_item", success |-> TRUE,
                                     message |-> <<"collected item successfully", robot_id,
                                                   None, "None">>]]
             ELSE [robots |-> robots,
                   response |-> Failure("pick_up_item", "unable to pick any item.", robot_id)]

\* pick_up_item runs and returns
PickUp ==
    /\ pc["pick_up_item"] = "run"
    /\ LET r == PickUpBody(request["pick_up_item"])
       IN  /\ robots' = r.robots
           /\ response' = r.response
    /\ pc' = [pc EXCEPT !["pick_up_item"] = "idle"]
    /\ request' = [request EXCEPT !["pick_up_item"] = None]
    /\ issued' = <<>>
    /\ published' = <<>>
    /\ UNCHANGED <<rng, first_run, clusters, items, zones, cluster_counter, item_counter,
                   loc, zone>>

-----------------------------------------------------------------------------
(* RequestHandler: offload_item *)

\* the deposits recorded so far, over all zones
Deposits == SumReturned(zones, "RED", Len(zones)) + SumReturned(zones, "GREEN", Len(zones))
            + SumReturned(zones, "BLUE", Len(zones))

\* the executor starts offload_item on a request for robot_id
OffloadStart(robot_id) ==
    /\ CanExecute("offload_item")
    /\ pc' = [pc EXCEPT !["offload_item"] = "run"]
    /\ request' = [request EXCEPT !["offload_item"] = robot_id]
    /\ issued' = <<>>
    /\ response' = NoResponse
    /\ published' = <<>>
    /\ UNCHANGED <<world, rng, loc, zone>>

\* offload_item returns a failure
OffloadFails(text) ==
    /\ response' = Failure("offload_item", text, request["offload_item"])
    /\ issued' = <<>>
    /\ pc' = [pc EXCEPT !["offload_item"] = "idle"]
    /\ request' = [request EXCEPT !["offload_item"] = None]
    /\ UNCHANGED <<world, rng, zone>>

\* OffloadDrop counting the item in the zone the robot stands in
OffloadDropCounting(robot_id, held, zi) ==
    /\ issued' = <<SetEntityState(held, robot_id, 0, 0, 0)>>
    /\ pc' = [pc EXCEPT !["offload_item"] = "await_drop"]
    /\ zone' = zi
    /\ response' = NoResponse
    /\ zones' = IF zi = 0 THEN zones
                ELSE [zones EXCEPT ![zi].items_returned[Get(items, held).colour] = @ + 1]
    /\ UNCHANGED <<first_run, clusters, items, robots, cluster_counter, item_counter, rng,
                   request>>

\* the item goes back on the floor, in the robot's frame
OffloadDrop(robot_id, held, zi) ==
    /\ issued' = <<SetEntityState(held, robot_id, 0, 0, 0)>>
    /\ pc' = [pc EXCEPT !["offload_item"] = "await_drop"]
    /\ zone' = zi
    /\ response' = NoResponse
    /\ UNCHANGED <<world, rng, request>>

\* the item is counted in the zone and gets a new place in its cluster
OffloadDeposit(held, zi) ==
    LET item == Get(items, held)
        g    == generate_item_position(rng, item.cluster_id, clusters, items, MaxAttempts)
    IN  /\ Deposits < MaxDeposits
        /\ zones' = [zones EXCEPT ![zi].items_returned[item.colour] = @ + 1]
        /\ rng' = g.rng
        /\ zone' = zi
        /\ response' = NoResponse
        /\ IF g.ok
           THEN /\ items' = [items EXCEPT ![Idx(items, held)].x = g.x,
                                          ![Idx(items, held)].y = g.y]
                /\ issued' = <<SetEntityState(held, <<"world", 0>>, g.x, g.y, 0)>>
                /\ pc' = [pc EXCEPT !["offload_item"] = "await_deposit"]
           ELSE /\ items' = items
                /\ issued' = <<>>
                /\ pc' = [pc EXCEPT !["offload_item"] = "looping"]
        /\ UNCHANGED <<first_run, clusters, robots, cluster_counter, item_counter, request>>

\* offload_item runs to its await of set_entity_state, or returns a failure
Offload ==
    /\ pc["offload_item"] = "run"
    /\ published' = <<>>
    /\ LET robot_id == request["offload_item"]
       IN  IF ~Has(robots, robot_id)
           THEN OffloadFails("Unable to find robot_id")
           ELSE LET robot == Get(robots, robot_id)
                    zi    == get_robot_zone(robot)
                IN  IF robot.item_held = None
                    THEN OffloadFails("does not hold any items, so unable to offload.")
                    ELSE IF ~allowed_drop_in_zone(robot, zi)
                    THEN OffloadDrop(robot_id, robot.item_held, zi)
                    ELSE OffloadDeposit(robot.item_held, zi)
    /\ UNCHANGED loc

\* the reply to the drop's set_entity_state arrives: offload_item returns
OffloadDropped ==
    /\ pc["offload_item"] = "await_drop"
    /\ LET robot_id == request["offload_item"]
           robot    == Get(robots, robot_id)
       IN  /\ response' = [service |-> "offload_item", success |-> TRUE,
                           message |-> <<"has been offloaded in the arena.", robot_id,
                                         robot.item_held, "None">>]
           /\ robots' = [robots EXCEPT ![Idx(robots, robot_id)].item_held = None]
    /\ pc' = [pc EXCEPT !["offload_item"] = "idle"]
    /\ request' = [request EXCEPT !["offload_item"] = None]
    /\ zone' = 0
    /\ issued' = <<>>
    /\ published' = <<>>
    /\ UNCHANGED <<rng, first_run, clusters, items, zones, cluster_counter, item_counter, loc>>

\* OffloadDeposited clearing previous_item_held only
OffloadDepositedStillHolding ==
    /\ pc["offload_item"] = "await_deposit"
    /\ LET robot_id == request["offload_item"]
           cleared  == [robots EXCEPT ![Idx(robots, robot_id)].previous_item_held = None]
       IN  /\ robots' = cleared
           /\ response' = [service |-> "offload_item", success |-> TRUE,
                           message |-> <<"has been offloaded at zone", robot_id,
                                         Get(cleared, robot_id).item_held, zones[zone].id>>]
    /\ pc' = [pc EXCEPT !["offload_item"] = "idle"]
    /\ request' = [request EXCEPT !["offload_item"] = None]
    /\ zone' = 0
    /\ issued' = <<>>
    /\ published' = <<>>
    /\ UNCHANGED <<rng, first_run, clusters, items, zones, cluster_counter, item_counter, loc>>

\* the reply to the deposit's set_entity_state arrives: offload_item returns
OffloadDeposited ==
    /\ pc["offload_item"] = "await_deposit"
    /\ LET robot_id == request["offload_item"]
           cleared  == [robots EXCEPT ![Idx(robots, robot_id)].item_held = None,
                                      ![Idx(robots, robot_id)].previous_item_held = None]
       IN  /\ robots' = cleared
           /\ response' = [service |-> "offload_item", success |-> TRUE,
                           message |-> <<"has been offloaded at zone", robot_id,
                                         Get(cleared, robot_id).item_held, zones[zone].id>>]
    /\ pc' = [pc EXCEPT !["offload_item"] = "idle"]
    /\ request' = [request EXCEPT !["offload_item"] = None]
    /\ zone' = 0
    /\ issued' = <<>>
    /\ published' = <<>>
    /\ UNCHANGED <<rng, first_run, clusters, items, zones, cluster_counter, item_counter, loc>>

-----------------------------------------------------------------------------
(* The node under the executor *)

\* the ids requests come with: those of the robots of the simulation, which
\* are unknown to the node until a tick has found them in the model list
RobotIds == RobotNames

Next ==
    \/ TickStart
    \/ TickSpawned
    \/ TickReady
    \/ \E model_names \in ModelLists : TickModelList(model_names)
    \/ \E position \in Poses : TickGotState(position)
    \/ TickSetState
    \/ \E robot_id \in RobotIds : PickUpStart(robot_id)
    \/ PickUp
    \/ \E robot_id \in RobotIds : OffloadStart(robot_id)
    \/ Offload
    \/ OffloadDropped
    \/ OffloadDeposited

Spec == Init /\ [][Next]_vars

\* seeding alone, over many seeds
InitSeed == InitWith(SeedRuns)
NextSeed == TickStart \/ TickSpawned
SpecSeed == InitSeed /\ [][NextSeed]_vars

\* Requests in the executor's queue.  A request of a service that has arrived
\* and whose handler has not been started is request[s] # None with
\* pc[s] = "idle"; it arrives whatever the callbacks of the group are doing.
PickUpArrive(robot_id) ==
    /\ pc["pick_up_item"] = "idle"
    /\ request["pick_up_item"] = None
    /\ request' = [request EXCEPT !["pick_up_item"] = robot_id]
    /\ UNCHANGED <<world, rng, pc, loc, zone, issued, response, published>>

\* the executor takes the waiting pick_up_item request once the group is free
PickUpDispatch ==
    /\ request["pick_up_item"] # None
    /\ PickUpStart(request["pick_up_item"])

\* at most MaxDeposits deposits are followed: no request arrives after them
OffloadArrive(robot_id) ==
    /\ pc["offload_item"] = "idle"
    /\ request["offload_item"] = None
    /\ Deposits < MaxDeposits
    /\ request' = [request EXCEPT !["offload_item"] = robot_id]
    /\ UNCHANGED <<world, rng, pc, loc, zone, issued, response, published>>

\* the executor takes the waiting offload_item request once the group is free
OffloadDispatch ==
    /\ request["offload_item"] # None
    /\ OffloadStart(request["offload_item"])

\* the seeds of the runs with queued requests: one whose seeding completes
\* and one whose seeding does not
LiveSeeds == {SeedList[1], SeedList[3]}

InitLive == InitWith(LiveSeeds)

NextLive ==
    \/ TickStart
    \/ TickSpawned
    \/ TickReady
    \/ \E model_names \in ModelLists : TickModelList(model_names)
    \/ \E position \in Poses : TickGotState(position)
    \/ TickSetState
    \/ \E robot_id \in RobotIds : PickUpArrive(robot_id)
    \/ PickUpDispatch
    \/ PickUp
    \/ \E robot_id \in RobotIds : OffloadArrive(robot_id)
    \/ OffloadDispatch
    \/ Offload
    \/ OffloadDropped
    \/ OffloadDeposited

\* every backend call completes: the step that receives its reply is taken.
\* TickSpawned is enabled exactly while control_loop awaits a spawn reply, and
\* its fairness is stated on that state: the await is left again and again.
BackendReplies ==
    /\ []<>(pc["control_loop"] # "await_spawn")
    /\ WF_vars(TickReady)
    /\ WF_vars(\E model_names \in ModelLists : TickModelList(model_names))
    /\ WF_vars(\E position \in Poses : TickGotState(position))
    /\ WF_vars(TickSetState)
    /\ WF_vars(OffloadDropped)
    /\ WF_vars(OffloadDeposited)

\* the executor is fair to ready callbacks: a waiting request whose group is
\* free again and again is taken, and a handler that was started runs to its
\* await or its return (Offload is enabled exactly at pc "run")
ExecutorFair ==
    /\ SF_vars(PickUpDispatch)
    /\ SF_vars(OffloadDispatch)
    /\ WF_vars(PickUp)
    /\ []<>(pc["offload_item"] # "run")

SpecLive == InitLive /\ [][NextLive]_vars /\ BackendReplies /\ ExecutorFair

-----------------------------------------------------------------------------
(* Properties *)

\* C1 (single holder): no item id is stored as held by two robots at the same
\* time.  pick_up_item never looks at who holds the item it finds in reach, so
\* two robots standing at the same item both collect it.
SingleHolder ==
    \A a, b \in DOMAIN robots :
        a # b /\ robots[a].item_held # None => robots[a].item_held # robots[b].item_held

\* a deposit of colour c is recorded in zone zi
Recorded(zi, c) == zones[zi].items_returned[c] >= 1

\* allowed_drop_in_zone refuses, for zone zi, every robot that holds an item
\* of another colour than c
Refuses(zi, c) ==
    \A k \in DOMAIN robots :
        robots[k].item_held # None /\ Get(items, robots[k].item_held).colour # c =>
            ~allowed_drop_in_zone(robots[k], zi)

\* C2 (zone lock monotonicity): once a deposit of colour c is recorded in a
\* zone, allowed_drop_in_zone refuses every held item of another colour for
\* that zone, now and after every later step, and the zone's counter for c
\* does not decrease.
ZoneLock ==
    [][\A zi \in DOMAIN zones : \A c \in Colour :
          Recorded(zi, c) =>
              /\ Refuses(zi, c)
              /\ Refuses(zi, c)'
              /\ zones'[zi].items_returned[c] >= zones[zi].items_returned[c]]_vars

\* a robot carrying an item of another colour asks to offload in a zone that
\* holds a deposit, and is turned away
ZoneLockWitness ==
    /\ pc["offload_item"] = "await_drop"
    /\ zone # 0
    /\ \E c \in Colour :
          /\ Recorded(zone, c)
          /\ Get(items, Get(robots, request["offload_item"]).item_held).colour # c

\* C3 (serialization): control_loop, pick_up_item and offload_item never
\* execute concurrently: while one of them has started and not returned,
\* suspended at an await or not, none of them is started.
Serialized == Cardinality({cb \in Callbacks : pc[cb] # "idle"}) <= 1

\* offload_item is suspended at its set_entity_state while the timer is due
\* and requests are pending
SerializedWitness ==
    /\ pc["offload_item"] \in {"await_drop", "await_deposit"}
    /\ Ticks < MaxTicks

\* C4 (no partial mutation at suspension): for an accepted offload, the zone
\* counter increment, the item relocation and the clearing of the robot's
\* held item lie on the same side of the await of set_entity_state.
DepositAtomic ==
    [][pc["offload_item"] = "run" /\ pc'["offload_item"] = "await_deposit" =>
          LET robot_id == request["offload_item"]
              counted   == zones' # zones
              relocated == items' # items
              cleared   == Get(robots', robot_id).item_held = None
          IN  (counted <=> cleared) /\ (relocated <=> cleared)]_vars

\* items i and j of one cluster have stored coordinates at least 0.3 apart
Apart(its, i, j) ==
    its[i].cluster_id = its[j].cluster_id =>
        Dist2(its[i].x, its[i].y, its[j].x, its[j].y) >= 30 * 30

\* C5 (item separation), as stated: in every state, any two distinct items of
\* the same cluster have stored coordinates at distance >= 0.3.  control_loop
\* gives a held item its carrier's coordinate, which may be anywhere.
ItemSeparation ==
    \A i, j \in DOMAIN items : i # j => Apart(items, i, j)

\* C5 (item separation), amended: every coordinate generate_item_position
\* hands out, to an item being seeded or to an item deposited in a zone, is at
\* distance >= 0.3 from the stored coordinate every other item of the same
\* cluster has at that moment.
PlacedApart ==
    [][\/ pc'["control_loop"] = "await_spawn"
       \/ pc["offload_item"] = "run" /\ pc'["offload_item"] = "await_deposit"
       => \A i \in DOMAIN items' :
             (i \notin DOMAIN items \/ items'[i] # items[i]) =>
                 \A j \in DOMAIN items' : i # j => Apart(items', i, j)]_vars

\* a deposited item has been given a new place among the items of its cluster
PlacedApartWitness ==
    /\ pc["offload_item"] = "await_deposit"
    /\ LET held == Get(robots, request["offload_item"]).item_held
       IN  \E j \in DOMAIN items :
              items[j].id # held /\ items[j].cluster_id = Get(items, held).cluster_id

\* cluster centres are integer cells: hundredths of a unit, multiples of 100
OnObstacle(cluster) ==
    \E ox, oy \in {-100, 100} : cluster.x = ox /\ cluster.y = oy

\* C6 (cluster separation): any two distinct clusters have centres at distance
\* strictly greater than 1.0, and no cluster centre is on one of the obstacle
\* cells (1,1), (1,-1), (-1,1), (-1,-1).
ClusterSeparation ==
    /\ \A i, j \in DOMAIN clusters :
          i # j => Dist2(clusters[i].x, clusters[i].y, clusters[j].x, clusters[j].y) > 100 * 100
    /\ \A i \in DOMAIN clusters : ~OnObstacle(clusters[i])

\* all the clusters of a run are placed
ClusterSeparationWitness ==
    /\ Len(clusters) = NUM_CLUSTERS
    /\ pc["control_loop"] = "await_ready"

\* the sum over the zones in S of the counter for colour c
RECURSIVE ZoneSum(_, _)
ZoneSum(S, c) ==
    IF S = {} THEN 0
    ELSE LET z == CHOOSE z \in S : TRUE
         IN  zones[z].items_returned[c] + ZoneSum(S \ {z}, c)

\* C7 (value consistency): in the ItemLog a tick publishes, each colour count
\* is the sum of that colour's counter over all zones at publish time,
\* total_count = red + green + blue, each colour value is count * value
\* (5, 10, 15), and total_value is the sum of count * value over all zones and
\* colours.
ValueConsistent ==
    published # <<>> =>
        LET log   == published[1].item_log
            red   == ZoneSum(DOMAIN zones, "RED")
            green == ZoneSum(DOMAIN zones, "GREEN")
            blue  == ZoneSum(DOMAIN zones, "BLUE")
        IN  /\ log.red_count = red /\ log.green_count = green /\ log.blue_count = blue
            /\ log.total_count = red + green + blue
            /\ log.red_value = 5 * red
            /\ log.green_value = 10 * green
            /\ log.blue_value = 15 * blue
            /\ log.total_value = 5 * red + 10 * green + 15 * blue

\* a tick publishes its log after a deposit was made
ValueConsistentWitness ==
    /\ published # <<>>
    /\ published[1].item_log.total_count >= 1
    /\ published[1].item_log.total_value >= 5

\* a step of control_loop that is not part of the seeding
TickStep ==
    /\ ~first_run
    /\ pc["control_loop"] # "await_spawn"
    /\ pc["control_loop"] # "idle" \/ pc'["control_loop"] # "idle"

\* C8 (idempotent tick): a tick after seeding leaves every zone counter, the
\* clusters with their centres and colours, and every item's cluster and
\* colour unchanged; of the items, only the coordinates of held ones change.
TickIdempotent ==
    [][TickStep =>
          /\ zones' = zones
          /\ clusters' = clusters
          /\ DOMAIN items' = DOMAIN items
          /\ \A i \in DOMAIN items :
                /\ items'[i].id = items[i].id
                /\ items'[i].cluster_id = items[i].cluster_id
                /\ items'[i].colour = items[i].colour
                /\ items'[i] # items[i] =>
                      \E k \in DOMAIN robots : robots[k].item_held = items[i].id]_vars

\* a tick after seeding has moved a held item
TickIdempotentWitness ==
    /\ pc["control_loop"] = "await_set_state"
    /\ Ticks >= 2

\* a request that pick_up_item is to turn down
PickUpError(robot_id) ==
    \/ ~Has(robots, robot_id)
    \/ Get(robots, robot_id).item_held # None
    \/ \A i \in DOMAIN items :
          Dist2(Get(robots, robot_id).x, Get(robots, robot_id).y, items[i].x, items[i].y)
              >= 35 * 35

\* a request that offload_item is to turn down
OffloadError(robot_id) ==
    \/ ~Has(robots, robot_id)
    \/ Get(robots, robot_id).item_held = None

\* C9 (caller errors): a pick_up request for an unknown robot, for a robot
\* already holding an item, or with no item in range, and an offload request
\* for an unknown robot or a robot holding nothing, return success = false
\* with a message, leave WorldState as it was and issue no backend call.
CallerErrors ==
    [][(\E s \in Services :
           /\ pc[s] = "run" /\ pc'[s] # "run"
           /\ IF s = "pick_up_item" THEN PickUpError(request[s]) ELSE OffloadError(request[s]))
       => /\ \A s \in Services : pc'[s] = "idle"
          /\ response'.service \in Services
          /\ ~response'.success
          /\ response'.message[1] # ""
          /\ world' = world
          /\ issued' = <<>>]_vars

\* a robot that holds an item asked to pick up again, with an item in reach
CallerErrorsWitness ==
    /\ response.service = "pick_up_item"
    /\ ~response.success
    /\ Has(robots, response.message[2])
    /\ Get(robots, response.message[2]).item_held # None
    /\ \E i \in DOMAIN items :
          Dist2(Get(robots, response.message[2]).x, Get(robots, response.message[2]).y,
                items[i].x, items[i].y) < 35 * 35

\* the items less than 0.35 from robot k, as indices in self.items
Close(k) ==
    {i \in DOMAIN items : Dist2(robots[k].x, robots[k].y, items[i].x, items[i].y) < 35 * 35}

\* C10 (pick-up range rule): for a tracked robot holding nothing, pick_up_item
\* succeeds if and only if some item is at distance < 0.35 from the robot; on
\* success the robot holds the first such item in the order of self.items,
\* nothing else in WorldState changes and no backend call is made.
PickUpRange ==
    [][/\ pc["pick_up_item"] = "run" /\ pc'["pick_up_item"] = "idle"
       /\ Has(robots, request["pick_up_item"])
       /\ Get(robots, request["pick_up_item"]).item_held = None
       => LET k == Idx(robots, request["pick_up_item"])
          IN  /\ response'.success <=> Close(k) # {}
              /\ Close(k) # {} =>
                    /\ \E i \in Close(k) :
                          /\ \A j \in Close(k) : i <= j
                          /\ robots' = [robots EXCEPT ![k].item_held = items[i].id]
                    /\ <<first_run, clusters, items, zones, cluster_counter, item_counter>>' =
                          <<first_run, clusters, items, zones, cluster_counter, item_counter>>
                    /\ issued' = <<>>]_vars

\* a robot picked up the first of several items in its reach
PickUpRangeWitness ==
    /\ response.service = "pick_up_item"
    /\ response.success
    /\ \E k \in DOMAIN robots :
          /\ robots[k].id = response.message[2]
          /\ Cardinality(Close(k)) >= 2
          /\ \E i \in Close(k) : items[i].id = robots[k].item_held /\ \A j \in Close(k) : i <= j

\* the zones whose square holds the stored coordinate of robot k
ZonesAround(k) ==
    {zi \in DOMAIN zones :
        /\ Abs(robots[k].x - zones[zi].x) <= 50
        /\ Abs(robots[k].y - zones[zi].y) <= 50}

\* robot k holds an item and stands in no zone, or in a zone that has a
\* deposit of another colour than the item's
DropCase(k) ==
    /\ robots[k].item_held # None
    /\ \/ ZonesAround(k) = {}
       \/ \E zi \in ZonesAround(k) : \E c \in Colour :
             c # Get(items, robots[k].item_held).colour /\ Recorded(zi, c)

\* C11 (rejected offload): when a robot holding an item offloads in no zone,
\* or in a zone whose recorded colour is not the item's, exactly one
\* set_entity_state is issued, for the item, in the robot's frame at (0, 0, 0);
\* the request then returns success = true with the robot holding nothing;
\* no zone counter changes on the way.
RejectedOffload ==
    [][LET robot_id == request["offload_item"]
       IN  /\ /\ pc["offload_item"] = "run"
              /\ Has(robots, robot_id)
              /\ DropCase(Idx(robots, robot_id))
              => /\ pc'["offload_item"] = "await_drop"
                 /\ issued' = <<[srv |-> "set_entity_state",
                                 name |-> Get(robots, robot_id).item_held,
                                 frame |-> robot_id, x |-> 0, y |-> 0, z |-> 0,
                                 colour |-> "None"]>>
                 /\ world' = world
           /\ pc["offload_item"] = "await_drop" /\ pc'["offload_item"] # "await_drop"
              => /\ pc'["offload_item"] = "idle"
                 /\ response'.service = "offload_item"
                 /\ response'.success
                 /\ Get(robots', robot_id).item_held = None
                 /\ issued' = <<>>
                 /\ zones' = zones]_vars

\* a robot was turned away in a zone that holds another colour, and its item
\* was dropped
RejectedOffloadWitness ==
    /\ response.service = "offload_item"
    /\ response.success
    /\ response.message[1] = "has been offloaded in the arena."
    /\ \E k \in DOMAIN robots :
          /\ robots[k].id = response.message[2]
          /\ robots[k].item_held = None
          /\ \E zi \in ZonesAround(k) : \E c \in Colour :
                c # Get(items, response.message[3]).colour /\ Recorded(zi, c)

\* robot k holds an item and stands in a zone whose counters are all 0 or
\* whose only non-zero counter is that of the item's colour
DepositCase(k) ==
    /\ robots[k].item_held # None
    /\ ZonesAround(k) # {}
    /\ \A zi \in ZonesAround(k) : \A c \in Colour :
          c # Get(items, robots[k].item_held).colour => zones[zi].items_returned[c] = 0

\* an accepted offload, with the deposited item placed within limit (squared
\* hundredths) of the centre of its cluster
AcceptedStep(limit) ==
    LET robot_id == request["offload_item"]
    IN  /\ /\ pc["offload_item"] = "run"
           /\ Has(robots, robot_id)
           /\ DepositCase(Idx(robots, robot_id))
           => LET k    == Idx(robots, robot_id)
                  i    == Idx(items, robots[k].item_held)
                  own  == Get(clusters, items[i].cluster_id)
              IN  /\ pc'["offload_item"] = "await_deposit"
                  /\ \A zi \in DOMAIN zones : \A c \in Colour :
                        zones'[zi].items_returned[c] =
                            zones[zi].items_returned[c]
                            + (IF zi \in ZonesAround(k) /\ c = items[i].colour THEN 1 ELSE 0)
                  /\ items'[i].cluster_id = items[i].cluster_id
                  /\ clusters' = clusters
                  /\ Dist2(items'[i].x, items'[i].y, own.x, own.y) <= limit
        /\ pc["offload_item"] = "await_deposit" /\ pc'["offload_item"] # "await_deposit"
           => /\ pc'["offload_item"] = "idle"
              /\ response'.service = "offload_item"
              /\ response'.success
              /\ Get(robots', robot_id).item_held = None
              /\ zones' = zones
              /\ items' = items

\* C12 (accepted offload), as stated: when a robot holding an item of colour C
\* offloads inside a zone with all counters 0 or whose only non-zero counter
\* is C, that zone's counter for C increases by exactly 1 and no other counter
\* changes, the item keeps its cluster and gets a coordinate within 0.5 of the
\* cluster's centre, and the request returns success = true with the robot
\* holding nothing.
AcceptedOffload == [][AcceptedStep(50 * 50)]_vars

\* C12 (accepted offload), amended: as stated, but the item's new coordinate
\* is the cluster's centre plus an offset of radius < 0.5 whose components are
\* each rounded to 2 decimals, so it lies within 0.5 + 0.0071 of the centre
\* (squared: at most 0.2571), not always within 0.5.
AcceptedOffloadRounded == [][AcceptedStep(2571)]_vars

\* a second deposit was accepted in a zone that held the item's colour already
AcceptedOffloadRoundedWitness ==
    /\ response.service = "offload_item"
    /\ response.success
    /\ response.message[1] = "has been offloaded at zone"
    /\ \E k \in DOMAIN robots :
          /\ robots[k].id = response.message[2]
          /\ robots[k].item_held = None
          /\ \E zi \in ZonesAround(k) : \E c \in Colour : zones[zi].items_returned[c] >= 2

\* pick_up_item returns success for robot_id in this step
PickUpReturns(robot_id) ==
    /\ pc["pick_up_item"] = "run" /\ pc'["pick_up_item"] = "idle"
    /\ request["pick_up_item"] = robot_id
    /\ response'.service = "pick_up_item"
    /\ response'.success

\* offload_item, called for robot_id, returns in this step
OffloadReturns(robot_id) ==
    /\ pc["offload_item"] \in {"await_drop", "await_deposit"} /\ pc'["offload_item"] = "idle"
    /\ request["offload_item"] = robot_id
    /\ response'.service = "offload_item"

\* C13 (held-item transitions): a robot's held item changes from none to an
\* item id only when a pick_up request for that robot returns success, and
\* from an item id to none only when an offload request for that robot
\* returns; nothing else changes the held item of a tracked robot, and a
\* tracked robot stays tracked.
HeldTransitions ==
    [][\A k \in DOMAIN robots :
          /\ k \in DOMAIN robots'
          /\ robots'[k].id = robots[k].id
          /\ robots'[k].item_held # robots[k].item_held =>
                \/ robots[k].item_held = None /\ PickUpReturns(robots[k].id)
                \/ robots'[k].item_held = None /\ OffloadReturns(robots[k].id)]_vars

\* a tick discovers a second robot while the first one holds an item
HeldTransitionsWitness ==
    /\ pc["control_loop"] = "await_get_state"
    /\ Len(robots) = 2
    /\ robots[1].item_held # None
    /\ robots[2] = Robot(RobotName(2), 0, 0)

\* the fixed value of a colour
FixedValue(c) == CASE c = "RED" -> 5 [] c = "GREEN" -> 10 [] c = "BLUE" -> 15

\* C14 (holder telemetry): a tick publishes one holder record per tracked
\* robot; its holding_item is true exactly when the robot's held item is not
\* none at publish time, and then item_colour is the held item's colour and
\* item_value that colour's value (5, 10, 15); otherwise item_colour is empty
\* and item_value is 0.
HolderTelemetry ==
    published # <<>> =>
        LET holders == published[1].item_holders
        IN  /\ Len(published) = 1
            /\ DOMAIN holders = DOMAIN robots
            /\ \A n \in DOMAIN robots :
                  /\ holders[n].robot_id = robots[n].id
                  /\ holders[n].holding_item <=> robots[n].item_held # None
                  /\ IF robots[n].item_held # None
                     THEN \E i \in DOMAIN items :
                             /\ items[i].id = robots[n].item_held
                             /\ holders[n].item_colour = items[i].colour
                             /\ holders[n].item_value = FixedValue(items[i].colour)
                     ELSE holders[n].item_colour = "" /\ holders[n].item_value = 0
            /\ \A m, n \in DOMAIN holders : m # n => holders[m].robot_id # holders[n].robot_id

\* a tick published the records of a robot that holds an item and of one that
\* holds none
HolderTelemetryWitness ==
    /\ published # <<>>
    /\ \E m, n \in DOMAIN published[1].item_holders :
          /\ published[1].item_holders[m].holding_item
          /\ published[1].item_holders[m].item_value >= 5
          /\ ~published[1].item_holders[n].holding_item

\* the band of a colour holds a cell that is no obstacle and is more than 1.0
\* from every cluster placed so far
BandHasFreeCell(colour, cls) ==
    \E x \in (IF colour = "RED" THEN {-2, -1} ELSE IF colour = "GREEN" THEN {-1, 0, 1} ELSE {1, 2}) :
        \E y \in -2..2 :
            /\ ~(x \in {-1, 1} /\ y \in {-1, 1})
            /\ \A k \in DOMAIN cls : Dist2(cls[k].x, cls[k].y, 100 * x, 100 * y) > 100 * 100

\* C15 (seeding termination): whenever generate_cluster_location is sampling
\* for a cluster, the band of the cluster's colour holds a cell that is no
\* obstacle and is more than 1.0 from every earlier cluster, so its loop
\* exits.  Earlier clusters can fill a band: the loop then never exits.
SeedingTerminates ==
    pc["control_loop"] = "looping" /\ Len(clusters) < cluster_counter =>
        BandHasFreeCell(loc.colour, clusters)

\* the seeding block of the first tick has finished
SeedingDone ==
    /\ ~first_run
    /\ pc["control_loop"] \notin {"await_spawn", "looping"}

\* what seeding leaves: 6 clusters, 2 of each colour, each with 3 to 5 items,
\* and no item id used twice
SeedingResult ==
    /\ Len(clusters) = 6
    /\ \A c \in Colour : Cardinality({k \in DOMAIN clusters : clusters[k].colour = c}) = 2
    /\ \A k \in DOMAIN clusters :
          Cardinality({i \in DOMAIN items : items[i].cluster_id = clusters[k].id}) \in 3..5
    /\ \A i, j \in DOMAIN items : i # j => items[i].id # items[j].id
    /\ \A j, k \in DOMAIN clusters : j # k => clusters[j].id # clusters[k].id

\* C16 (seeding result): once the seeding block of the first tick has
\* finished there are exactly 6 clusters, 2 of each colour, each cluster owns
\* between 3 and 5 items, item ids are pairwise distinct, and no later tick
\* or request adds or removes a cluster or an item: the result holds when the
\* block finishes, and every later step keeps the clusters and the items'
\* ids and clusters as they are.
SeedingOnce ==
    [][SeedingDone' =>
          IF ~SeedingDone
          THEN SeedingResult'
          ELSE /\ clusters' = clusters
               /\ [i \in DOMAIN items' |-> <<items'[i].id, items'[i].cluster_id>>] =
                     [i \in DOMAIN items |-> <<items[i].id, items[i].cluster_id>>]]_vars

\* a second tick and a deposit have happened since the seeding
SeedingOnceWitness ==
    /\ SeedingDone
    /\ Ticks >= 2
    /\ \E zi \in DOMAIN zones : \E c \in Colour : Recorded(zi, c)

\* the spawn request for the entity 'ready' is among the requests just issued
ReadyIssued ==
    \E n \in DOMAIN issued : issued[n].srv = "spawn_entity" /\ issued[n].name = <<"ready", 0>>

\* C17 (ready marker ordering): the spawn request for 'ready' is never issued
\* before seeding is complete: every item is spawned in the step that creates
\* it, with the tick then awaiting the reply, and 'ready' is requested only
\* once all 6 clusters exist with their items, after the reply to the last
\* item's spawn or in a later tick.
ReadyAfterSeeding ==
    [][/\ \A i \in DOMAIN items' :
             i \notin DOMAIN items =>
                 /\ Len(issued') = 1
                 /\ issued'[1].srv = "spawn_entity" /\ issued'[1].name = items'[i].id
                 /\ pc'["control_loop"] = "await_spawn"
       /\ ReadyIssued' =>
             /\ Len(clusters) = 6 /\ clusters' = clusters /\ items' = items
             /\ \A k \in DOMAIN clusters : \E i \in DOMAIN items : items[i].cluster_id = clusters[k].id
             /\ loc.j = 0
             /\ pc["control_loop"] \in {"await_spawn", "idle"}
             /\ pc["control_loop"] = "idle" => ~first_run
             /\ pc'["control_loop"] = "await_ready"]_vars

\* the first tick has seeded the arena and requested 'ready'
ReadyAfterSeedingWitness ==
    /\ ReadyIssued
    /\ Ticks = 1
    /\ pc["control_loop"] = "await_ready"
    /\ Len(items) >= 18

\* C18 (ready marker once): the spawn request for 'ready' is issued once, by
\* the tick that seeds, right after the reply to the last item's spawn, and
\* by no later tick.  The request stands outside the first-run block, so
\* every tick issues it.
ReadyOnce ==
    [][ReadyIssued' => pc["control_loop"] = "await_spawn"]_vars

\* C19 (held item follows its carrier): at the end of every tick, the stored
\* coordinate of every item a tracked robot holds is that robot's stored
\* coordinate.  An item held by two robots (see SingleHolder) follows only
\* the one whose pose the tick read last.
HeldFollowsCarrier ==
    published # <<>> =>
        \A k \in DOMAIN robots :
            robots[k].item_held # None =>
                /\ Get(items, robots[k].item_held).x = robots[k].x
                /\ Get(items, robots[k].item_held).y = robots[k].y

\* every item belongs to an existing cluster and has that cluster's colour
Associated ==
    \A i \in DOMAIN items :
        \E k \in DOMAIN clusters :
            clusters[k].id = items[i].cluster_id /\ clusters[k].colour = items[i].colour

\* C20 (item association): every item's owning cluster id names an existing
\* cluster whose colour is the item's, and no step changes an item's colour
\* or owning cluster or deletes an item.
ItemAssociation ==
    [][/\ Associated'
       /\ \A i \in DOMAIN items :
             /\ i \in DOMAIN items'
             /\ items'[i].id = items[i].id
             /\ items'[i].colour = items[i].colour
             /\ items'[i].cluster_id = items[i].cluster_id]_vars

\* one item has been deposited and put back in its cluster while another is
\* carried away from its own
ItemAssociationWitness ==
    /\ \E zi \in DOMAIN zones : \E c \in Colour : Recorded(zi, c)
    /\ \E k \in DOMAIN robots :
          /\ robots[k].item_held # None
          /\ LET item == Get(items, robots[k].item_held)
                 own  == Get(clusters, item.cluster_id)
             IN  Dist2(item.x, item.y, own.x, own.y) > 100 * 100

\* C21 (single colour per zone): in every state every zone has all counters
\* non-negative and at most one colour with a non-zero counter.
SingleColourPerZone ==
    \A zi \in DOMAIN zones :
        /\ \A c \in Colour : zones[zi].items_returned[c] >= 0
        /\ Cardinality({c \in Colour : zones[zi].items_returned[c] # 0}) <= 1

\* a robot carrying another colour asks to offload in a zone that another
\* robot has deposited in
SingleColourPerZoneWitness ==
    /\ pc["offload_item"] = "run"
    /\ Has(robots, request["offload_item"])
    /\ LET k == Idx(robots, request["offload_item"])
       IN  /\ robots[k].item_held # None
           /\ \E zi \in ZonesAround(k) : \E c \in Colour :
                 /\ Recorded(zi, c)
                 /\ c # Get(items, robots[k].item_held).colour
           /\ \E m \in DOMAIN robots : m # k /\ ZonesAround(m) = ZonesAround(k)

\* C22 (dropped in place): when a rejected offload returns, the dropped item's
\* stored coordinate equals the offloading robot's stored coordinate, also
\* when the offload directly follows the pick-up with no tick in between.
DroppedInPlace ==
    [][pc["offload_item"] = "await_drop" /\ pc'["offload_item"] = "idle"
       => LET robot_id == request["offload_item"]
              robot    == Get(robots', robot_id)
              dropped  == Get(items', Get(robots, robot_id).item_held)
          IN  dropped.x = robot.x /\ dropped.y = robot.y]_vars

\* C23 (request liveness): with every backend call completing and the executor
\* fair to ready callbacks, every pick_up_item and offload_item request that
\* has arrived is eventually executed and answered, also one that arrives
\* while the first tick is seeding the arena.
RequestLiveness ==
    \A s \in Services : (request[s] # None) ~> (request[s] = None)


====
